---- MODULE Spec2Model ----
(***************************************************************************)
(* State-machine model of the GraphQL notes service: the resolvers of      *)
(* src/src/resolvers/index.js over the User and Note collections, the      *)
(* server's formatError step (src/unnamed/part_001) and the browser        *)
(* client's graphqlRequest (src/unnamed/part_000).                         *)
(*                                                                         *)
(* Every `await` on the store is one atomic step; a resolver with several  *)
(* awaits is several steps, so that requests interleave between them.      *)
(* The Mongoose models (src/models/User.js, src/models/Note.js) are not    *)
(* among the sources: what the model needs of them (the unique indexes on  *)
(* username and email, the empty default notes list) is taken from the     *)
(* data model of spec.md section 3 and is marked as such.                  *)
(***************************************************************************)
EXTENDS Integers, Sequences, FiniteSets, TLC

VARIABLES users, notes, nextUser, nextNote, inflight, resp, deleted, ui

vars == <<users, notes, nextUser, nextNote, inflight, resp, deleted, ui>>

(***************************************************************************)
(* Bounds of the model.                                                    *)
(***************************************************************************)
MaxUsers == 2
MaxNotes == 2
MaxInflight == 2

(***************************************************************************)
(* Input domains.  Strings other than tags are opaque; a tag is the        *)
(* sequence of its character codes so that toLowerCase is computed.        *)
(***************************************************************************)
\* The (username, email) pairs given to createUser: the third shares its
\* username with the first and its email with the second.
UserInputs == {<<"ann", "a@x">>, <<"bob", "b@x">>, <<"ann", "b@x">>}

\* Strings the code tests or transforms are sequences of character codes.
EmptyString == <<>>
T1 == <<116, 49>>
T2 == <<116, 50>>
C1 == <<99, 49>>
C2 == <<99, 50>>

TagUpAB == <<65, 66>>
TagLowAb == <<97, 98>>
TagA == <<65>>
TagLowA == <<97>>
TagB == <<66>>
TagLowB == <<98>>

\* Tag lists given to createNote: ["A", "b"] and ["a", "B"].
TagLists == {<<TagA, TagLowB>>, <<TagLowA, TagB>>}

Slots == 1..MaxInflight

\* JavaScript values handed to a resolver argument that the code tests for
\* truthiness or type: undefined, a string, a number, an array.
Undefined == [t |-> "undefined"]
Str(s) == [t |-> "string", v |-> s]
Num(n) == [t |-> "number", v |-> n]
Arr(a) == [t |-> "array", v |-> a]

Truthy(x) ==
    CASE x.t = "undefined" -> FALSE
      [] x.t = "string" -> x.v # EmptyString
      [] x.t = "number" -> x.v # 0
      [] x.t = "array" -> TRUE

(***************************************************************************)
(* Pure helpers.                                                           *)
(***************************************************************************)
Range(s) == {s[i] : i \in DOMAIN s}

Count(s, x) == Cardinality({i \in DOMAIN s : s[i] = x})

Min(S) == CHOOSE x \in S : \A y \in S : x <= y

\* The elements of a finite set of ids in ascending order: the order in
\* which a find without a sort returns documents inserted with growing ids.
RECURSIVE Ascending(_)
Ascending(S) == IF S = {} THEN <<>> ELSE <<Min(S)>> \o Ascending(S \ {Min(S)})

\* String.prototype.toLowerCase on one character code.
LowerChar(c) == IF c >= 65 /\ c <= 90 THEN c + 32 ELSE c

\* tag.toLowerCase()
ToLowerCaseKeep(tag) == tag
ToLowerCase(tag) == [i \in DOMAIN tag |-> LowerChar(tag[i])]

\* tags.map(tag => tag.toLowerCase())
LowerTags(tags) == [i \in DOMAIN tags |-> ToLowerCase(tags[i])]

\* $pull: every occurrence of x leaves the array.
RECURSIVE Pull(_, _)
Pull(s, x) ==
    IF s = <<>> THEN <<>>
    ELSE IF Head(s) = x THEN Pull(Tail(s), x)
    ELSE <<Head(s)>> \o Pull(Tail(s), x)

(***************************************************************************)
(* Errors and responses.                                                   *)
(***************************************************************************)
NoError == "none"

MsgUserNotFound == "Failed to fetch user: User not found"
MsgNoteNotFoundQuery == "Failed to fetch note: Note not found"
MsgInvalidTag == "Failed to fetch notes by tag: Invalid tag provided"
MsgUserExists == "User with this email or username already exists"
MsgDuplicateKey == "E11000 duplicate key error"
MsgAuthorNotFound == "Author not found"
MsgNoteNotFound == "Note not found"
MsgInternal == "Internal server error"
MsgStoreError == "store write failed"

\* The failure kinds of the error taxonomy, by the message the resolver raises.
NotFoundMsgs == {MsgUserNotFound, MsgNoteNotFoundQuery, MsgAuthorNotFound, MsgNoteNotFound}
ConflictMsgs == {MsgUserExists, MsgDuplicateKey}
InvalidArgumentMsgs == {MsgInvalidTag}

\* `throw new Error(msg)` in a resolver: a plain Error carries no extensions,
\* and the server hands it to formatError with the default code.
ResolverError(msg) == [message |-> msg, code |-> "INTERNAL_SERVER_ERROR"]

\* formatError of the ApolloServer options.
FormatError(error) ==
    IF error.code = "INTERNAL_SERVER_ERROR"
    THEN [message |-> MsgInternal]
    ELSE [message |-> error.message]

Null == [kind |-> "null"]

\* What the step just taken sent back: no response, data, or an error.
\* op and id name the request answered (id is its id argument, 0 when it
\* takes none); raised is the message of the Error the resolver threw;
\* errors is the errors list of the response body after formatError.
NoResp == [op |-> "none", id |-> 0, raised |-> NoError, errors |-> <<>>, data |-> Null]
Ok(op, id, data) ==
    [op |-> op, id |-> id, raised |-> NoError, errors |-> <<>>, data |-> data]
Fail(op, id, msg) ==
    [op |-> op, id |-> id, raised |-> msg,
     errors |-> <<FormatError(ResolverError(msg))>>, data |-> Null]

\* graphqlRequest: the message of the Error the browser client throws for a
\* response with errors (the messages joined; one error gives its message).
GraphqlRequestError(r) == r.errors[1].message

\* The browser page with no action under way.
PageIdle == [pc |-> "idle"]

(***************************************************************************)
(* The store.                                                              *)
(***************************************************************************)
Idle == [op |-> "idle"]

Busy == {s \in Slots : inflight[s] # Idle}

\* A request may start while fewer than limit requests are in flight.
CanStart(limit) == Cardinality(Busy) < limit

FreeSlot == Min(Slots \ Busy)

Pending(op) == Cardinality({s \in Slots : inflight[s].op = op})

\* populate of an id array: ids without a document are dropped.
Populate(ids) == SelectSeq(ids, LAMBDA n : n \in DOMAIN notes)

\* Note.find with a filter: the matching documents in insertion order.
NoteDoc(n) == [id |-> n, title |-> notes[n].title, content |-> notes[n].content,
               tags |-> notes[n].tags, author |-> notes[n].author]

FindNotes(S) == [i \in DOMAIN Ascending(S) |-> NoteDoc(Ascending(S)[i])]

\* User.notes field resolver: Note.find({ _id: { $in: user.notes } }).
UserNotesField(ids) == Ascending({n \in DOMAIN notes : n \in Range(ids)})

UserDoc(u) == [id |-> u, username |-> users[u].username, email |-> users[u].email,
               notes |-> UserNotesField(Populate(users[u].notes))]

Init ==
    /\ users = <<>>
    /\ notes = <<>>
    /\ nextUser = 1
    /\ nextNote = 1
    /\ inflight = [s \in Slots |-> Idle]
    /\ resp = NoResp
    /\ deleted = {}
    /\ ui = PageIdle

(***************************************************************************)
(* Queries.  Each is one read of the store.                                *)
(***************************************************************************)
UserIdArgs == 1..(MaxUsers + 1)
NoteIdArgs == 1..(MaxNotes + 1)
\* The tag values the resolver's guard distinguishes: a missing value, a
\* value that is not a string, the empty string, and non-empty strings.
TagArgs == {Undefined, Num(1), Str(EmptyString), Str(TagA), Str(TagLowB), Str(TagUpAB)}

\* User.find().populate(...): every stored User, in insertion order.
UsersResultNoneFound ==
    IF DOMAIN users = {}
    THEN Fail("users", 0, "No users found")
    ELSE Ok("users", 0, [i \in 1..Len(Ascending(DOMAIN users)) |->
                            UserDoc(Ascending(DOMAIN users)[i])])
UsersResult ==
    Ok("users", 0, [i \in 1..Len(Ascending(DOMAIN users)) |->
                        UserDoc(Ascending(DOMAIN users)[i])])

QueryUsers(limit) ==
    /\ CanStart(limit)
    /\ resp' = UsersResult
    /\ UNCHANGED <<users, notes, nextUser, nextNote, inflight, deleted, ui>>

UserResult(id) ==
    IF id \in DOMAIN users THEN Ok("user", id, UserDoc(id)) ELSE Fail("user", id, MsgUserNotFound)

QueryUser(limit, id) ==
    /\ CanStart(limit)
    /\ resp' = UserResult(id)
    /\ UNCHANGED <<users, notes, nextUser, nextNote, inflight, deleted, ui>>

\* Note.find().populate(...): every stored Note, in insertion order.
NotesResult == Ok("notes", 0, FindNotes(DOMAIN notes))

QueryNotes(limit) ==
    /\ CanStart(limit)
    /\ resp' = NotesResult
    /\ UNCHANGED <<users, notes, nextUser, nextNote, inflight, deleted, ui>>

NoteResultNull(id) ==
    IF id \in DOMAIN notes THEN Ok("note", id, NoteDoc(id)) ELSE Ok("note", id, Null)
NoteResult(id) ==
    IF id \in DOMAIN notes THEN Ok("note", id, NoteDoc(id)) ELSE Fail("note", id, MsgNoteNotFoundQuery)

QueryNote(limit, id) ==
    /\ CanStart(limit)
    /\ resp' = NoteResult(id)
    /\ UNCHANGED <<users, notes, nextUser, nextNote, inflight, deleted, ui>>

\* Note.find({ tags: x }): the notes whose tags array holds x.
NotesTaggedFirst(x) == {n \in DOMAIN notes : notes[n].tags # <<>> /\ notes[n].tags[1] = x}
NotesTagged(x) == {n \in DOMAIN notes : x \in Range(notes[n].tags)}

NotesByTagResult(tag) ==
    IF ~Truthy(tag) \/ tag.t # "string"
    THEN Fail("notesByTag", 0, MsgInvalidTag)
    ELSE Ok("notesByTag", 0, FindNotes(NotesTagged(ToLowerCase(tag.v))))

QueryNotesByTag(limit, tag) ==
    /\ CanStart(limit)
    /\ resp' = NotesByTagResult(tag)
    /\ UNCHANGED <<users, notes, nextUser, nextNote, inflight, deleted, ui>>

(***************************************************************************)
(* createUser: findOne, then save.                                         *)
(***************************************************************************)
\* User.findOne({ $or: [{ email }, { username }] })
ExistingUserByEmail(username, email) ==
    \E u \in DOMAIN users : users[u].email = email
ExistingUser(username, email) ==
    \E u \in DOMAIN users : users[u].email = email \/ users[u].username = username

CreateUserFindOne(limit, username, email) ==
    /\ CanStart(limit)
    /\ UNCHANGED <<users, notes, nextUser, nextNote, deleted, ui>>
    /\ IF ExistingUser(username, email)
       THEN /\ resp' = Fail("createUser", 0, MsgUserExists)
            /\ UNCHANGED inflight
       ELSE /\ nextUser + Pending("createUser") <= MaxUsers
            /\ inflight' = [inflight EXCEPT ![FreeSlot] =
                   [op |-> "createUser", pc |-> "save", username |-> username,
                    email |-> email]]
            /\ resp' = NoResp

\* The unique indexes of the User schema on username and on email.
DuplicateKeyNoIndex(username, email) == FALSE
DuplicateKey(username, email) ==
    \E u \in DOMAIN users : users[u].email = email \/ users[u].username = username

\* new User({ username, email, password }): the notes array starts empty.
\* The password is hashed by the model's pre-save hook and never returned;
\* it takes no part in any operation modelled here.
NewUser(username, email) == [username |-> username, email |-> email, notes |-> <<>>]

\* user.save() of a new User document.
CreateUserSave(s) ==
    /\ inflight[s].op = "createUser"
    /\ inflight[s].pc = "save"
    /\ inflight' = [inflight EXCEPT ![s] = Idle]
    /\ UNCHANGED <<notes, nextNote, deleted, ui>>
    /\ IF DuplicateKey(inflight[s].username, inflight[s].email)
       THEN /\ resp' = Fail("createUser", 0, MsgDuplicateKey)
            /\ UNCHANGED <<users, nextUser>>
       ELSE /\ users' = users @@
                   (nextUser :> NewUser(inflight[s].username, inflight[s].email))
            /\ nextUser' = nextUser + 1
            /\ resp' = Ok("createUser", 0,
                   [id |-> nextUser, username |-> inflight[s].username,
                    email |-> inflight[s].email,
                    notes |-> UserNotesField(
                        NewUser(inflight[s].username, inflight[s].email).notes)])

(***************************************************************************)
(* createNote: findById of the author, save of the Note, save of the       *)
(* author with the pushed id, then populate of the saved Note.             *)
(***************************************************************************)
\* const author = await User.findById(authorId): whether a document came back.
AuthorFoundAlways(authorId) == TRUE
AuthorFound(authorId) == authorId \in DOMAIN users

CreateNoteFindAuthor(limit, title, content, tags, authorId) ==
    /\ CanStart(limit)
    /\ UNCHANGED <<users, notes, nextUser, nextNote, deleted, ui>>
    /\ IF ~AuthorFound(authorId)
       THEN /\ resp' = Fail("createNote", 0, MsgAuthorNotFound)
            /\ UNCHANGED inflight
       ELSE /\ nextNote + Pending("createNote") <= MaxNotes
            /\ inflight' = [inflight EXCEPT ![FreeSlot] =
                   [op |-> "createNote", pc |-> "saveNote", title |-> title,
                    content |-> content, author |-> authorId,
                    tags |-> tags, id |-> 0]]
            /\ resp' = NoResp

\* new Note({ title, content, author: authorId, tags: tags.map(...) })
NewNote(r) == [title |-> r.title, content |-> r.content, author |-> r.author,
               tags |-> LowerTags(r.tags)]

\* const savedNote = await note.save()
CreateNoteSaveNote(s) ==
    /\ inflight[s].op = "createNote"
    /\ inflight[s].pc = "saveNote"
    /\ notes' = notes @@ (nextNote :> NewNote(inflight[s]))
    /\ nextNote' = nextNote + 1
    /\ inflight' = [inflight EXCEPT ![s].pc = "saveAuthor", ![s].id = nextNote]
    /\ resp' = NoResp
    /\ UNCHANGED <<users, nextUser, deleted, ui>>

\* author.notes.push(savedNote._id): Mongoose saves a pushed array element
\* as a $push on the stored document.
PushNoteNothing(u, n) == users
PushNote(u, n) ==
    IF u \in DOMAIN users
    THEN [users EXCEPT ![u].notes = Append(users[u].notes, n)]
    ELSE users

\* await author.save(); return savedNote.populate('author').  The populate
\* reads the author, whose username and email never change; the returned
\* document is the in-memory savedNote.
CreateNoteSaveAuthor(s) ==
    /\ inflight[s].op = "createNote"
    /\ inflight[s].pc = "saveAuthor"
    /\ users' = PushNote(inflight[s].author, inflight[s].id)
    /\ inflight' = [inflight EXCEPT ![s] = Idle]
    /\ resp' = Ok("createNote", 0,
           [id |-> inflight[s].id] @@ NewNote(inflight[s]))
    /\ UNCHANGED <<notes, nextUser, nextNote, deleted, ui>>

(***************************************************************************)
(* updateNote: one findByIdAndUpdate with { $set: update }, { new: true }. *)
(***************************************************************************)
\* The (title, content, tags) arguments given to updateNote: nothing, title
\* and content only, tags only (a list, the empty list), and tags with an
\* empty title and an empty content.
UpdateArgs ==
    {<<Undefined, Undefined, Undefined>>,
     <<Str(T2), Str(C2), Undefined>>,
     <<Undefined, Undefined, Arr(<<TagA, TagB>>)>>,
     <<Undefined, Undefined, Arr(<<>>)>>,
     <<Str(EmptyString), Str(EmptyString), Arr(<<TagLowA, TagB>>)>>}

\* The update object built from the supplied arguments, applied to a note.
UpdateFieldsReplace(n, title, content, tags) ==
    [title |-> IF Truthy(title) THEN title.v ELSE EmptyString,
     content |-> IF Truthy(content) THEN content.v ELSE EmptyString,
     author |-> n.author,
     tags |-> IF Truthy(tags) THEN LowerTags(tags.v) ELSE <<>>]
UpdateFields(n, title, content, tags) ==
    [title |-> IF Truthy(title) THEN title.v ELSE n.title,
     content |-> IF Truthy(content) THEN content.v ELSE n.content,
     author |-> n.author,
     tags |-> IF Truthy(tags) THEN LowerTags(tags.v) ELSE n.tags]

UpdateNote(limit, id, title, content, tags) ==
    /\ CanStart(limit)
    /\ UNCHANGED <<users, nextUser, nextNote, inflight, deleted, ui>>
    /\ IF id \notin DOMAIN notes
       THEN /\ resp' = Fail("updateNote", id, MsgNoteNotFound)
            /\ UNCHANGED notes
       ELSE /\ notes' = [notes EXCEPT ![id] = UpdateFields(notes[id], title, content, tags)]
            /\ resp' = Ok("updateNote", id,
                   [id |-> id] @@ UpdateFields(notes[id], title, content, tags))

(***************************************************************************)
(* deleteNote: findByIdAndDelete, then updateOne with $pull.               *)
(***************************************************************************)
\* Note.findByIdAndDelete(id): the collection without the document.
RemoveNoteKeep(id) == notes
RemoveNote(id) == [n \in DOMAIN notes \ {id} |-> notes[n]]

DeleteNoteFindAndDelete(limit, id) ==
    /\ CanStart(limit)
    /\ UNCHANGED <<users, nextUser, nextNote, deleted, ui>>
    /\ IF id \notin DOMAIN notes
       THEN /\ resp' = Fail("deleteNote", id, MsgNoteNotFound)
            /\ UNCHANGED <<notes, inflight>>
       ELSE /\ notes' = RemoveNote(id)
            /\ inflight' = [inflight EXCEPT ![FreeSlot] =
                   [op |-> "deleteNote", pc |-> "pull", id |-> id,
                    author |-> notes[id].author]]
            /\ resp' = NoResp

\* User.updateOne({ _id: note.author }, { $pull: { notes: note._id } })
PullNoteAll(u, n) ==
    IF u \in DOMAIN users
    THEN [users EXCEPT ![u].notes = <<>>]
    ELSE users
PullNote(u, n) ==
    IF u \in DOMAIN users
    THEN [users EXCEPT ![u].notes = Pull(users[u].notes, n)]
    ELSE users

DeleteNotePull(s) ==
    /\ inflight[s].op = "deleteNote"
    /\ inflight[s].pc = "pull"
    /\ users' = PullNote(inflight[s].author, inflight[s].id)
    /\ inflight' = [inflight EXCEPT ![s] = Idle]
    /\ resp' = Ok("deleteNote", inflight[s].id, [kind |-> "true"])
    /\ deleted' = deleted \cup {[id |-> inflight[s].id, author |-> inflight[s].author]}
    /\ UNCHANGED <<notes, nextUser, nextNote, ui>>

(***************************************************************************)
(* A failing second write.  The store may turn down author.save() of       *)
(* createNote and the updateOne of deleteNote; the resolver's catch        *)
(* rethrows the store's message and nothing undoes the first write.        *)
(***************************************************************************)
\* catch (error) { throw new Error(error.message || ...) }
CatchSwallow(op, id, msg) == Ok(op, id, Null)
CatchRethrow(op, id, msg) == Fail(op, id, msg)

\* await author.save() rejects.
CreateNoteSaveAuthorFails(s) ==
    /\ inflight[s].op = "createNote"
    /\ inflight[s].pc = "saveAuthor"
    /\ inflight' = [inflight EXCEPT ![s] = Idle]
    /\ resp' = CatchRethrow("createNote", 0, MsgStoreError)
    /\ UNCHANGED <<users, notes, nextUser, nextNote, deleted, ui>>

\* await User.updateOne(...) rejects.
DeleteNotePullFails(s) ==
    /\ inflight[s].op = "deleteNote"
    /\ inflight[s].pc = "pull"
    /\ inflight' = [inflight EXCEPT ![s] = Idle]
    /\ resp' = CatchRethrow("deleteNote", inflight[s].id, MsgStoreError)
    /\ UNCHANGED <<users, notes, nextUser, nextNote, deleted, ui>>

(***************************************************************************)
(* The schema and the browser page.  A browser action builds a request     *)
(* document and its variables; the server validates the document against   *)
(* the schema and coerces the variables before any resolver runs; the      *)
(* action then reads what graphqlRequest returns.                          *)
(***************************************************************************)
\* A GraphQL type reference: a named type, with or without the "!".
Type(name, required) == [name |-> name, required |-> required]

\* The types typeDefs declares, with the built-in scalars.
SchemaTypes ==
    {"ID", "String", "Boolean", "[String!]", "User", "Note",
     "CreateUserInput", "CreateNoteInput"}

LeafTypes == {"ID", "String", "Boolean", "[String!]"}

\* The arguments and the return type typeDefs declares for a field of
\* Query or Mutation.
SchemaField(field) ==
    CASE field = "notesByTag" ->
           [args |-> ("tag" :> Type("String", TRUE)), returns |-> "Note"]
      [] field = "createNote" ->
           [args |-> ("input" :> Type("CreateNoteInput", TRUE)), returns |-> "Note"]
      [] field = "updateNote" ->
           [args |-> ("id" :> Type("ID", TRUE)) @@ ("title" :> Type("String", FALSE))
                     @@ ("content" :> Type("String", FALSE))
                     @@ ("tags" :> Type("[String!]", FALSE)),
            returns |-> "Note"]
      [] field = "deleteNote" ->
           [args |-> ("id" :> Type("ID", TRUE)), returns |-> "Boolean"]

\* The fields of input CreateNoteInput, all required.
CreateNoteInputFields == {"title", "content", "tags", "authorId"}

\* The request document of each browser action: the field it calls, the
\* variables it declares, the argument each variable is passed as, and
\* whether the field carries a selection set.
BrowserRequest(action) ==
    CASE action = "searchByTag" ->
           [field |-> "notesByTag", vars |-> ("tag" :> Type("String", TRUE)),
            args |-> ("tag" :> "tag"), selects |-> TRUE]
      [] action = "createNote" ->
           [field |-> "createNote", vars |-> ("input" :> Type("CreateNoteInput", TRUE)),
            args |-> ("input" :> "input"), selects |-> TRUE]
      [] action = "updateNote" ->
           [field |-> "updateNote",
            vars |-> ("id" :> Type("ID", TRUE)) @@ ("input" :> Type("UpdateNoteInput", TRUE)),
            args |-> ("id" :> "id") @@ ("input" :> "input"), selects |-> TRUE]
      [] action = "deleteNote" ->
           [field |-> "deleteNote", vars |-> ("id" :> Type("ID", TRUE)),
            args |-> ("id" :> "id"), selects |-> TRUE]

\* Validation of a request document against the schema: every variable has
\* a declared type, every argument is one the field declares and takes a
\* variable of its type, every required argument is given, and a selection
\* set is present exactly when the field returns an object type.
MatchesSchema(q) ==
    /\ \A v \in DOMAIN q.vars : q.vars[v].name \in SchemaTypes
    /\ DOMAIN q.args \subseteq DOMAIN SchemaField(q.field).args
    /\ \A a \in DOMAIN q.args :
          /\ q.vars[q.args[a]].name = SchemaField(q.field).args[a].name
          /\ SchemaField(q.field).args[a].required => q.vars[q.args[a]].required
    /\ \A a \in DOMAIN SchemaField(q.field).args :
          SchemaField(q.field).args[a].required => a \in DOMAIN q.args
    /\ q.selects = (SchemaField(q.field).returns \notin LeafTypes)

\* Coercion of the variables: a CreateNoteInput value must carry every
\* required field (JSON.stringify drops a field set to undefined).
VariablesCoerce(q, given) ==
    q.field = "createNote" => CreateNoteInputFields \subseteq given

\* The response to a request the server turns down before any resolver
\* runs; formatError passes its message through.
MsgValidation == "request does not match the schema"
Rejected(field) ==
    [op |-> field, id |-> 0, raised |-> MsgValidation,
     errors |-> <<FormatError([message |-> MsgValidation,
                               code |-> "GRAPHQL_VALIDATION_FAILED"])>>,
     data |-> Null]

\* A browser action passes its own checks of the form, sends its request
\* and awaits the response.  filled says every field of the form was
\* filled in.
Submit(action, variables, given, filled) ==
    /\ ui.pc \in {"idle", "done"}
    /\ Busy = {}
    /\ ui' = [pc |-> "sent", action |-> action, request |-> BrowserRequest(action),
              variables |-> variables, given |-> given, filled |-> filled,
              branch |-> "none"]
    /\ resp' = NoResp
    /\ UNCHANGED <<users, notes, nextUser, nextNote, inflight, deleted>>

\* createNote: authorId, title and content are required by the form; an
\* empty tags field sends tags: undefined.
BrowserCreateNote(authorId, title, content, tags) ==
    /\ title # EmptyString
    /\ content # EmptyString
    /\ Submit("createNote",
              [title |-> title, content |-> content, tags |-> tags,
               authorId |-> authorId],
              IF tags # <<>> THEN {"title", "content", "tags", "authorId"}
              ELSE {"title", "content", "authorId"},
              tags # <<>>)

\* searchByTag: a tag that is not empty after trim().
BrowserSearchByTag(tag) ==
    /\ tag # EmptyString
    /\ Submit("searchByTag", [tag |-> tag], {"tag"}, TRUE)

\* updateNote: an id and the fields that are not empty, wrapped in input.
BrowserUpdateNote(id, a) ==
    /\ \E i \in 1..3 : Truthy(a[i])
    /\ Submit("updateNote", [id |-> id, title |-> a[1], content |-> a[2], tags |-> a[3]],
              {"id", "input"}, \A i \in 1..3 : Truthy(a[i]))

\* deleteNote: an id, and confirm() answered with OK.
BrowserDeleteNote(id, confirmed) ==
    /\ confirmed
    /\ Submit("deleteNote", [id |-> id], {"id"}, TRUE)

\* The server turns the request down before any resolver runs.
ServeRejected ==
    /\ ui.pc = "sent"
    /\ resp = NoResp
    /\ Busy = {}
    /\ ~(MatchesSchema(ui.request) /\ VariablesCoerce(ui.request, ui.given))
    /\ resp' = Rejected(ui.request.field)
    /\ UNCHANGED <<users, notes, nextUser, nextNote, inflight, deleted, ui>>

\* The server accepts the request and calls the field's resolver.
Serve ==
    /\ ui.pc = "sent"
    /\ resp = NoResp
    /\ Busy = {}
    /\ MatchesSchema(ui.request)
    /\ VariablesCoerce(ui.request, ui.given)
    /\ CASE ui.request.field = "notesByTag" ->
               QueryNotesByTag(1, Str(ui.variables.tag))
         [] ui.request.field = "createNote" ->
               CreateNoteFindAuthor(1, ui.variables.title, ui.variables.content,
                                    ui.variables.tags, ui.variables.authorId)
         [] ui.request.field = "updateNote" ->
               UpdateNote(1, ui.variables.id, ui.variables.title,
                          ui.variables.content, ui.variables.tags)
         [] ui.request.field = "deleteNote" ->
               DeleteNoteFindAndDelete(1, ui.variables.id)

\* graphqlRequest: throws when the response has errors, otherwise returns
\* result.data, the object holding the result under the field's name.
GraphqlRequestThrows(r) == r.errors # <<>>
GraphqlRequestReturns(r) == (r.op :> r.data)

\* Reading a key of an object: undefined when the object has no such key.
ReadKey(object, key) == IF key \in DOMAIN object THEN object[key] ELSE Undefined

\* The key each action destructures from what graphqlRequest returns:
\* const { createNote } = ... in createNote, const { data } = ... elsewhere.
DestructuredKey(action) == IF action = "createNote" THEN "createNote" ELSE "data"

\* The branch the action ends in: its catch, its success branch, or
\* neither (the if (data && data.<field>) test is false).
Branch(action, r) ==
    IF GraphqlRequestThrows(r) THEN "error"
    ELSE IF action = "createNote" THEN "success"
    ELSE IF ReadKey(GraphqlRequestReturns(r), DestructuredKey(action)) = Undefined
         THEN "none"
         ELSE "success"

\* The awaited response arrives and the action handles it.
Receive ==
    /\ ui.pc = "sent"
    /\ resp # NoResp
    /\ resp.op = ui.request.field
    /\ Busy = {}
    /\ ui' = [ui EXCEPT !.pc = "done", !.branch = Branch(ui.action, resp)]
    /\ UNCHANGED <<users, notes, nextUser, nextNote, inflight, resp, deleted>>

\* A createUser request, served while the page awaits nothing.
CreateUserRequest(username, email) ==
    /\ ui.pc # "sent"
    /\ CreateUserFindOne(1, username, email)

(***************************************************************************)
(* Specifications.  Requests(limit) lets at most limit requests be in      *)
(* flight at once: Spec interleaves the steps of concurrent requests,      *)
(* SeqSpec runs each request to completion before the next starts.         *)
(***************************************************************************)
Requests(limit) ==
    \/ QueryUsers(limit)
    \/ \E id \in UserIdArgs : QueryUser(limit, id)
    \/ QueryNotes(limit)
    \/ \E id \in NoteIdArgs : QueryNote(limit, id)
    \/ \E tag \in TagArgs : QueryNotesByTag(limit, tag)
    \/ \E input \in UserInputs : CreateUserFindOne(limit, input[1], input[2])
    \/ \E tags \in TagLists, authorId \in UserIdArgs :
           CreateNoteFindAuthor(limit, T1, C1, tags, authorId)
    \/ \E id \in NoteIdArgs, a \in UpdateArgs :
           UpdateNote(limit, id, a[1], a[2], a[3])
    \/ \E id \in NoteIdArgs : DeleteNoteFindAndDelete(limit, id)

Steps ==
    \/ \E s \in Slots : CreateUserSave(s)
    \/ \E s \in Slots : CreateNoteSaveNote(s)
    \/ \E s \in Slots : CreateNoteSaveAuthor(s)
    \/ \E s \in Slots : DeleteNotePull(s)

Next == Requests(MaxInflight) \/ Steps

SeqNext == Requests(1) \/ Steps

Spec == Init /\ [][Next]_vars

SeqSpec == Init /\ [][SeqNext]_vars

\* One request at a time, and the second write of createNote and of
\* deleteNote may fail.
FailSteps ==
    \/ \E s \in Slots : CreateNoteSaveAuthorFails(s)
    \/ \E s \in Slots : DeleteNotePullFails(s)

FailNext == SeqNext \/ FailSteps

FailSpec == Init /\ [][FailNext]_vars

\* The browser page against the server, one request at a time.
BrowserNext ==
    \/ \E authorId \in UserIdArgs, tags \in TagLists \cup {<<>>} :
           BrowserCreateNote(authorId, T1, C1, tags)
    \/ \E tag \in {TagA, TagLowB} : BrowserSearchByTag(tag)
    \/ \E id \in NoteIdArgs, a \in UpdateArgs : BrowserUpdateNote(id, a)
    \/ \E id \in NoteIdArgs, confirmed \in BOOLEAN : BrowserDeleteNote(id, confirmed)
    \/ ServeRejected
    \/ Serve
    \/ Receive
    \/ \E input \in UserInputs : CreateUserRequest(input[1], input[2])
    \/ \E s \in Slots : CreateUserSave(s)
    \/ \E s \in Slots : CreateNoteSaveNote(s)
    \/ \E s \in Slots : CreateNoteSaveAuthor(s)

BrowserSpec == Init /\ [][BrowserNext]_vars

(***************************************************************************)
(* Properties.                                                             *)
(***************************************************************************)
\* Some stored User has this username or this email.
InUse(username, email) ==
    \E u \in DOMAIN users : users[u].username = username \/ users[u].email = email

\* C1: in every reachable state, whatever the interleaving of createUser
\* calls, no two stored Users share a username and none share an email.
C1_UniqueUsernameAndEmail ==
    \A u, v \in DOMAIN users :
        u # v => /\ users[u].username # users[v].username
                 /\ users[u].email # users[v].email

\* Two createUser calls passed their existence checks before either insert,
\* and the later insert was turned down.
C1_Witness ==
    /\ resp.op = "createUser"
    /\ resp.raised = MsgDuplicateKey
    /\ Cardinality(DOMAIN users) = 1

\* C2: createUser fails with a Conflict error and adds no User when the
\* username or the email is in use; otherwise it stores exactly one new User
\* whose notes list is empty, and returns it with an empty notes list.
C2_CreateUserConflictOrInsert ==
    [][/\ \A input \in UserInputs :
            (UNCHANGED users /\ CreateUserFindOne(MaxInflight, input[1], input[2])) =>
                IF InUse(input[1], input[2])
                THEN /\ resp'.op = "createUser"
                     /\ resp'.raised \in ConflictMsgs
                     /\ UNCHANGED <<users, notes, inflight>>
                ELSE /\ resp' = NoResp
                     /\ \E s \in Slots :
                            /\ inflight[s] = Idle
                            /\ inflight'[s].op = "createUser"
                            /\ inflight'[s].username = input[1]
                            /\ inflight'[s].email = input[2]
       /\ \A s \in Slots :
            CreateUserSave(s) =>
                /\ resp'.op = "createUser"
                /\ notes' = notes
                /\ IF InUse(inflight[s].username, inflight[s].email)
                   THEN /\ resp'.raised \in ConflictMsgs
                        /\ users' = users
                   ELSE /\ resp'.raised = NoError
                        /\ resp'.data.notes = <<>>
                        /\ resp'.data.id \notin DOMAIN users
                        /\ DOMAIN users' = DOMAIN users \cup {resp'.data.id}
                        /\ \A u \in DOMAIN users : users'[u] = users[u]
                        /\ users'[resp'.data.id] =
                               [username |-> inflight[s].username,
                                email |-> inflight[s].email, notes |-> <<>>]
      ]_vars

\* A createUser was turned down by the existence check while a User is stored.
C2_Witness ==
    /\ resp.op = "createUser"
    /\ resp.raised = MsgUserExists
    /\ Cardinality(DOMAIN users) = 1

\* C3: right after createNote returns a new Note id for authorId, with no
\* other request interleaved, the author's stored notes list holds the id
\* exactly once and user(authorId).notes holds that Note exactly once.
C3_CreateNoteLinksAuthor ==
    (resp.op = "createNote" /\ resp.raised = NoError) =>
        /\ resp.data.author \in DOMAIN users
        /\ Count(users[resp.data.author].notes, resp.data.id) = 1
        /\ UserResult(resp.data.author).raised = NoError
        /\ Count(UserResult(resp.data.author).data.notes, resp.data.id) = 1

\* createNote returned the second Note of one author.
C3_Witness ==
    /\ resp.op = "createNote"
    /\ resp.raised = NoError
    /\ Len(users[resp.data.author].notes) = 2

\* C4: once deleteNote(id) has returned success, in every later state
\* note(id) fails with NotFound and user(author).notes does not hold id.
\* Note ids are never issued twice, so no later createNote brings id back.
C4_DeletedStaysGone ==
    \A d \in deleted :
        /\ NoteResult(d.id).raised \in NotFoundMsgs
        /\ d.author \in DOMAIN users =>
               /\ UserResult(d.author).raised = NoError
               /\ d.id \notin Range(UserResult(d.author).data.notes)

\* A Note was created after another had been deleted.
C4_Witness ==
    /\ deleted # {}
    /\ resp.op = "createNote"
    /\ resp.raised = NoError

\* C5: createNote with an authorId that names no stored User fails with
\* NotFound and leaves Notes and Users as they were, with nothing pending.
C5_CreateNoteUnknownAuthor ==
    [][\A tags \in TagLists, authorId \in UserIdArgs :
          (authorId \notin DOMAIN users
           /\ CreateNoteFindAuthor(MaxInflight, T1, C1, tags, authorId)) =>
              /\ resp'.op = "createNote"
              /\ resp'.raised = MsgAuthorNotFound
              /\ resp'.raised \in NotFoundMsgs
              /\ UNCHANGED <<users, notes, nextNote, inflight>>
      ]_vars

\* createNote was turned down for its author while Users and Notes are stored.
C5_Witness ==
    /\ resp.op = "createNote"
    /\ resp.raised = MsgAuthorNotFound
    /\ DOMAIN users # {}
    /\ DOMAIN notes # {}

\* No character of the tag is an upper-case letter.
IsLowerCase(tag) == \A j \in DOMAIN tag : tag[j] < 65 \/ tag[j] > 90

\* The tag lists given to createNote and updateNote, lowercased by hand.
LoweredByHand(tags) ==
    CASE tags = <<TagA, TagLowB>> -> <<TagLowA, TagLowB>>
      [] tags = <<TagLowA, TagB>> -> <<TagLowA, TagLowB>>
      [] tags = <<TagA, TagB>> -> <<TagLowA, TagLowB>>
      [] tags = <<>> -> <<>>

\* C6: after every step every tag of every stored Note is lowercase, and
\* the tags createNote and updateNote store are the given tags lowercased
\* in the given order (["A", "b"] is stored as ["a", "b"]).
C6_TagsStoredLowercase ==
    [][/\ \A n \in DOMAIN notes' : \A i \in DOMAIN notes'[n].tags :
              IsLowerCase(notes'[n].tags[i])
       /\ \A s \in Slots :
            CreateNoteSaveNote(s) =>
                /\ nextNote \in DOMAIN notes'
                /\ notes'[nextNote].tags = LoweredByHand(inflight[s].tags)
       /\ \A s \in Slots :
            CreateNoteSaveAuthor(s) =>
                resp'.data.tags = LoweredByHand(inflight[s].tags)
       /\ \A id \in NoteIdArgs, a \in UpdateArgs :
            (id \in DOMAIN notes /\ a[3] # Undefined /\ resp'.id = id
             /\ UpdateNote(MaxInflight, id, a[1], a[2], a[3])) =>
                /\ notes'[id].tags = LoweredByHand(a[3].v)
                /\ resp'.data.tags = LoweredByHand(a[3].v)
      ]_vars

\* updateNote stored ["a", "b"] over an empty tag list.
C6_Witness ==
    /\ resp.op = "updateNote"
    /\ resp.raised = NoError
    /\ resp.data.tags = <<TagLowA, TagLowB>>
    /\ notes[resp.id].tags = <<TagLowA, TagLowB>>
    /\ \E n \in DOMAIN notes : notes[n].tags = <<>>

\* A non-empty string or any array was supplied for the field.
Supplied(x) == x # Undefined /\ x # Str(EmptyString)

\* C7: updateNote on a stored Note changes no field whose argument is
\* omitted, sets title and content to the supplied values, and leaves the
\* Note's author, every other Note and every User as they were.
C7_UpdateNoteFrame ==
    [][\A id \in NoteIdArgs, a \in UpdateArgs :
          (id \in DOMAIN notes /\ resp'.id = id
           /\ UpdateNote(MaxInflight, id, a[1], a[2], a[3])) =>
              /\ a[1] = Undefined => notes'[id].title = notes[id].title
              /\ a[2] = Undefined => notes'[id].content = notes[id].content
              /\ a[3] = Undefined => notes'[id].tags = notes[id].tags
              /\ Supplied(a[1]) => notes'[id].title = a[1].v
              /\ Supplied(a[2]) => notes'[id].content = a[2].v
              /\ Supplied(a[3]) => Len(notes'[id].tags) = Len(a[3].v)
              /\ notes'[id].author = notes[id].author
              /\ DOMAIN notes' = DOMAIN notes
              /\ \A m \in DOMAIN notes : m # id => notes'[m] = notes[m]
              /\ users' = users
              /\ resp'.raised = NoError
              /\ resp'.data = [id |-> id] @@ notes'[id]
      ]_vars

\* updateNote with only tags was applied to a Note whose title and content
\* are still those it was created with, while another Note is stored.
C7_Witness ==
    /\ resp.op = "updateNote"
    /\ resp.raised = NoError
    /\ resp.data.tags = <<>>
    /\ resp.data.title = T1
    /\ resp.data.content = C1
    /\ Cardinality(DOMAIN notes) = 2

\* The tag arguments that are non-empty strings, lowercased by hand.
LoweredTagByHand(tag) ==
    CASE tag = Str(TagA) -> TagLowA
      [] tag = Str(TagLowB) -> TagLowB
      [] tag = Str(TagUpAB) -> TagLowAb

\* C8: notesByTag with a non-empty string returns, once each, exactly the
\* stored Notes whose tags hold the lowercased tag as an element (none
\* gives the empty sequence); with an empty string or a value that is not a
\* string it fails with InvalidArgument.
C8_NotesByTagExact ==
    [][resp'.op = "notesByTag" =>
        \A tag \in TagArgs :
            QueryNotesByTag(MaxInflight, tag) =>
                IF tag \in {Str(TagA), Str(TagLowB), Str(TagUpAB)}
                THEN /\ resp'.raised = NoError
                     /\ {resp'.data[i].id : i \in DOMAIN resp'.data} =
                            {n \in DOMAIN notes :
                                \E i \in DOMAIN notes[n].tags :
                                    notes[n].tags[i] = LoweredTagByHand(tag)}
                     /\ \A i, j \in DOMAIN resp'.data :
                            resp'.data[i].id = resp'.data[j].id => i = j
                     /\ \A i \in DOMAIN resp'.data :
                            resp'.data[i] =
                                [id |-> resp'.data[i].id] @@ notes[resp'.data[i].id]
                ELSE /\ resp'.raised = MsgInvalidTag
                     /\ resp'.raised \in InvalidArgumentMsgs
      ]_vars

\* notesByTag returned exactly one of two stored Notes, the one whose second
\* tag is the lowercased argument.
C8_Witness ==
    /\ resp.op = "notesByTag"
    /\ resp.raised = NoError
    /\ Len(resp.data) = 1
    /\ resp.data[1].tags = <<TagLowA, TagLowB>>
    /\ Cardinality(DOMAIN notes) = 2

\* C9: user, note, updateNote and deleteNote with an id that names no
\* stored record each fail with NotFound and change nothing in the store;
\* a deleteNote of an id already deleted is one such call.
C9_UnknownIdNotFound ==
    [][/\ \A id \in UserIdArgs :
            (id \notin DOMAIN users /\ resp'.op = "user" /\ QueryUser(MaxInflight, id)) =>
                /\ resp'.raised \in NotFoundMsgs
                /\ UNCHANGED <<users, notes, inflight>>
       /\ \A id \in NoteIdArgs :
            (id \notin DOMAIN notes /\ resp'.op = "note" /\ QueryNote(MaxInflight, id)) =>
                /\ resp'.raised \in NotFoundMsgs
                /\ UNCHANGED <<users, notes, inflight>>
       /\ \A id \in NoteIdArgs, a \in UpdateArgs :
            (id \notin DOMAIN notes /\ resp'.op = "updateNote"
             /\ UpdateNote(MaxInflight, id, a[1], a[2], a[3])) =>
                /\ resp'.raised \in NotFoundMsgs
                /\ UNCHANGED <<users, notes, inflight>>
       /\ \A id \in NoteIdArgs :
            (id \notin DOMAIN notes /\ DeleteNoteFindAndDelete(MaxInflight, id)) =>
                /\ resp'.op = "deleteNote"
                /\ resp'.raised \in NotFoundMsgs
                /\ UNCHANGED <<users, notes, inflight, deleted, ui>>
      ]_vars

\* A second deleteNote of an id deleted before was turned down.
C9_Witness ==
    /\ resp.op = "deleteNote"
    /\ resp.raised = MsgNoteNotFound
    /\ \E d \in deleted : d.id = resp.id

\* C10: every failure a resolver raises reaches the caller as the one entry
\* of the errors list, carrying the failure's own message, which is also the
\* message graphqlRequest throws.
C10_ErrorsCarryOwnMessage ==
    resp.raised # NoError =>
        /\ Len(resp.errors) = 1
        /\ resp.errors[1].message = resp.raised
        /\ GraphqlRequestError(resp) = resp.raised

\* users, user, notes and note answer without error: every resolved notes
\* entry is a stored Note and every resolved author is a stored User, as
\* the non-null fields notes: [Note!]! and author: User! require.
QueriesAnswer ==
    /\ UsersResult.raised = NoError
    /\ NotesResult.raised = NoError
    /\ \A i \in DOMAIN NotesResult.data : NotesResult.data[i].author \in DOMAIN users
    /\ \A u \in DOMAIN users :
          /\ UserResult(u).raised = NoError
          /\ UserResult(u) = Ok("user", u, UsersResult.data[u])
          /\ Range(UserResult(u).data.notes) \subseteq DOMAIN notes
    /\ \A n \in DOMAIN notes :
          /\ NoteResult(n).raised = NoError
          /\ NoteResult(n).data.author \in DOMAIN users

\* C11: when author.save() of createNote fails the call reports an error,
\* the saved Note stays and its id is in no notes list; when the $pull of
\* deleteNote fails the call reports an error, the Note stays deleted and
\* its id stays in the author's list as often as it was there; after either, users, user, notes and
\* note answer without error.
C11_SecondWriteFailure ==
    [][/\ \A s \in Slots :
            CreateNoteSaveAuthorFails(s) =>
                /\ resp'.op = "createNote"
                /\ resp'.raised # NoError
                /\ Len(resp'.errors) = 1
                /\ inflight[s].id \in DOMAIN notes'
                /\ notes'[inflight[s].id].author = inflight[s].author
                /\ \A u \in DOMAIN users' :
                       Count(users'[u].notes, inflight[s].id) = 0
                /\ QueriesAnswer'
       /\ \A s \in Slots :
            DeleteNotePullFails(s) =>
                /\ resp'.op = "deleteNote"
                /\ resp'.raised # NoError
                /\ Len(resp'.errors) = 1
                /\ inflight[s].id \notin DOMAIN notes'
                /\ inflight[s].author \in DOMAIN users'
                /\ Count(users'[inflight[s].author].notes, inflight[s].id) =
                       Count(users[inflight[s].author].notes, inflight[s].id)
                /\ QueriesAnswer'
      ]_vars

\* A deleteNote failed at its $pull and left its id in the author's list,
\* while a Note left by a failed createNote is in no list.
C11_Witness ==
    /\ resp.op = "deleteNote"
    /\ resp.raised = MsgStoreError
    /\ \E u \in DOMAIN users : resp.id \in Range(users[u].notes)
    /\ resp.id \notin DOMAIN notes
    /\ \E n \in DOMAIN notes : \A u \in DOMAIN users : n \notin Range(users[u].notes)

\* C12: users answers with exactly the stored Users and notes with exactly
\* the stored Notes, each once and with its stored fields; on the empty
\* store each answers with the empty sequence and no error.
C12_ListQueriesExact ==
    [][/\ (resp'.op = "users" /\ QueryUsers(MaxInflight)) =>
            /\ resp'.raised = NoError
            /\ resp'.errors = <<>>
            /\ {resp'.data[i].id : i \in DOMAIN resp'.data} = DOMAIN users
            /\ Len(resp'.data) = Cardinality(DOMAIN users)
            /\ \A i \in DOMAIN resp'.data :
                   /\ resp'.data[i].username = users[resp'.data[i].id].username
                   /\ resp'.data[i].email = users[resp'.data[i].id].email
                   /\ Range(resp'.data[i].notes) =
                          Range(users[resp'.data[i].id].notes) \cap DOMAIN notes
            /\ DOMAIN users = {} => resp'.data = <<>>
       /\ (resp'.op = "notes" /\ QueryNotes(MaxInflight)) =>
            /\ resp'.raised = NoError
            /\ resp'.errors = <<>>
            /\ {resp'.data[i].id : i \in DOMAIN resp'.data} = DOMAIN notes
            /\ Len(resp'.data) = Cardinality(DOMAIN notes)
            /\ \A i \in DOMAIN resp'.data :
                   resp'.data[i] = [id |-> resp'.data[i].id] @@ notes[resp'.data[i].id]
            /\ DOMAIN notes = {} => resp'.data = <<>>
      ]_vars

\* users answered with two Users, one of them with a Note.
C12_Witness ==
    /\ resp.op = "users"
    /\ resp.raised = NoError
    /\ Len(resp.data) = 2
    /\ \E i \in DOMAIN resp.data : resp.data[i].notes # <<>>

\* C13: whenever no request is in flight, after any interleaving of
\* createUser, createNote, updateNote and deleteNote requests none of whose
\* writes failed, every stored Note's id is exactly once in its author's
\* notes list, and every id in a User's notes list names a stored Note
\* authored by that User.
C13_OwnershipAgrees ==
    Busy = {} =>
        /\ \A n \in DOMAIN notes :
              /\ notes[n].author \in DOMAIN users
              /\ Count(users[notes[n].author].notes, n) = 1
        /\ \A u \in DOMAIN users : \A i \in DOMAIN users[u].notes :
              /\ users[u].notes[i] \in DOMAIN notes
              /\ notes[users[u].notes[i]].author = u

\* Every User but u is as it was, and u keeps its username and email.
OnlyNotesOf(u) ==
    /\ DOMAIN users' = DOMAIN users
    /\ \A v \in DOMAIN users : v # u => users'[v] = users[v]
    /\ users'[u].username = users[u].username
    /\ users'[u].email = users[u].email

\* C14: the five queries change neither Users nor Notes; createUser adds
\* exactly one User, or none when it fails, and changes no Note and no
\* other User; createNote adds exactly one Note and appends exactly its id
\* to exactly its author's notes list; deleteNote removes exactly one Note
\* and takes only that id out of only its author's notes list; a call that
\* fails at its first lookup changes nothing.
C14_WritesAsNamed ==
    [][/\ resp'.op \in {"users", "user", "notes", "note", "notesByTag"} =>
              UNCHANGED <<users, notes>>
       /\ \A input \in UserInputs :
            (resp'.op \in {"none", "createUser"}
             /\ CreateUserFindOne(MaxInflight, input[1], input[2])) =>
                UNCHANGED <<users, notes>>
       /\ \A s \in Slots :
            (resp'.op = "createUser" /\ CreateUserSave(s)) =>
                /\ notes' = notes
                /\ \A u \in DOMAIN users :
                       u \in DOMAIN users' /\ users'[u] = users[u]
                /\ IF resp'.raised = NoError
                   THEN Cardinality(DOMAIN users') = Cardinality(DOMAIN users) + 1
                   ELSE users' = users
       /\ \A tags \in TagLists, authorId \in UserIdArgs :
            (resp'.op \in {"none", "createNote"}
             /\ CreateNoteFindAuthor(MaxInflight, T1, C1, tags, authorId)) =>
                UNCHANGED <<users, notes>>
       /\ \A s \in Slots :
            (resp'.op = "none" /\ CreateNoteSaveNote(s)) =>
                /\ users' = users
                /\ \A n \in DOMAIN notes :
                       n \in DOMAIN notes' /\ notes'[n] = notes[n]
                /\ Cardinality(DOMAIN notes') = Cardinality(DOMAIN notes) + 1
       /\ \A s \in Slots :
            (resp'.op = "createNote" /\ CreateNoteSaveAuthor(s)) =>
                /\ notes' = notes
                /\ OnlyNotesOf(inflight[s].author)
                /\ Len(users'[inflight[s].author].notes) =
                       Len(users[inflight[s].author].notes) + 1
                /\ \A i \in DOMAIN users[inflight[s].author].notes :
                       users'[inflight[s].author].notes[i] =
                           users[inflight[s].author].notes[i]
                /\ users'[inflight[s].author].notes[
                       Len(users'[inflight[s].author].notes)] = inflight[s].id
       /\ \A id \in NoteIdArgs :
            (resp'.op \in {"none", "deleteNote"}
             /\ DeleteNoteFindAndDelete(MaxInflight, id)) =>
                /\ users' = users
                /\ IF id \in DOMAIN notes
                   THEN /\ DOMAIN notes' = DOMAIN notes \ {id}
                        /\ \A n \in DOMAIN notes' : notes'[n] = notes[n]
                   ELSE notes' = notes
       /\ \A s \in Slots :
            (resp'.op = "deleteNote" /\ DeleteNotePull(s)) =>
                /\ notes' = notes
                /\ OnlyNotesOf(inflight[s].author)
                /\ Count(users'[inflight[s].author].notes, inflight[s].id) = 0
                /\ \A m \in NoteIdArgs :
                       m # inflight[s].id =>
                           Count(users'[inflight[s].author].notes, m) =
                               Count(users[inflight[s].author].notes, m)
      ]_vars

\* deleteNote took one of two ids out of its author's notes list.
C14_Witness ==
    /\ resp.op = "deleteNote"
    /\ resp.raised = NoError
    /\ \E d \in deleted :
          /\ d.id = resp.id
          /\ Len(users[d.author].notes) = 1
          /\ Range(users[d.author].notes) \subseteq DOMAIN notes

\* C15: a browser action (createNote, updateNote, deleteNote, searchByTag)
\* submitted with every form field filled sends a request that matches the
\* schema, and on a response without errors ends in its success branch.
C15_BrowserActionsSucceed ==
    (ui.pc = "done" /\ ui.filled) =>
        /\ MatchesSchema(ui.request)
        /\ VariablesCoerce(ui.request, ui.given)
        /\ resp.errors = <<>> => ui.branch = "success"

====
